---- MODULE Spec2Model ----
(***************************************************************************)
(* Iteration exporting of tutorials/exporting_models.ipynb: the class      *)
(* IterationExporting (save_data_iteration, after_nonlinear_iteration),    *)
(* the radix computation and the index encoding inside                     *)
(* save_data_iteration, and the solver loop that drives the callback.      *)
(***************************************************************************)
EXTENDS Integers, Sequences, FiniteSets

(* ------------------------------ bounds --------------------------------- *)

\* Largest max_iterations handed to the radix computation on its own.
MaxN == 1100

\* Number of non-positive max_iterations values tried (0, -1, ..., -MinNeg).
MinNeg == 3

\* Largest max_iterations in the encoding and driver specifications.
MaxIter == 11

\* Largest radix given directly to the encoding.
MaxRadix == 11

\* Largest time step index given to the encoding.
MaxT == 2

\* Largest iteration index given to the encoding.
MaxI == 12

\* Largest time step index the driver reaches.
MaxTimeIndex == 2

(* ------------------------- program constants --------------------------- *)

\* self.params.get("max_iterations", 10): the default bound.
DefaultMaxIterations == 10

\* params without the key "max_iterations": the parameter is held as the
\* sequence of the values given for the key, empty or of length one.
Unset == << >>

(* --------------------------- pure functions ---------------------------- *)

RECURSIVE Pow10(_)
\* 10 ** e for a non-negative integer e.
Pow10(e) == IF e = 0 THEN 1 ELSE 10 * Pow10(e - 1)

\* Is v a power of ten (1, 10, 100, ...)?
RECURSIVE IsPowerOfTen(_)
IsPowerOfTen(v) ==
    IF v = 1 THEN TRUE
    ELSE IF v < 10 \/ v % 10 # 0 THEN FALSE
    ELSE IsPowerOfTen(v \div 10)

\* np.log10(n): finite for n > 0, -inf for n = 0, nan for n < 0.
Log10Class(n) ==
    IF n > 0 THEN "finite" ELSE IF n = 0 THEN "neginf" ELSE "nan"

RECURSIVE RoundLog10From(_, _)
\* The least p' >= p with log10(n) < p' + 1/2, that is n^2 < 10^(2p'+1).
RoundLog10From(n, p) ==
    IF n * n < Pow10(2 * p + 1) THEN p ELSE RoundLog10From(n, p + 1)

\* round(np.log10(n)) for n > 0: the integer nearest to log10(n). It is the
\* p with 10^(2p-1) <= n^2 < 10^(2p+1); log10 of an integer is never
\* half-way between two integers, so the tie rule of round plays no part.
RoundLog10(n) == RoundLog10From(n, 0)

\* Lines 211-215 without the escalation "if r <= n" (a plausible slip).
computeRadixNoEscalation(n) ==
    IF Log10Class(n) = "neginf"
    THEN [err |-> "OverflowError", val |-> 0, p |-> 0, escalated |-> FALSE]
    ELSE IF Log10Class(n) = "nan"
    THEN [err |-> "ValueError", val |-> 0, p |-> 0, escalated |-> FALSE]
    ELSE [err |-> "none", val |-> Pow10(RoundLog10(n)),
          p |-> RoundLog10(n), escalated |-> FALSE]

\* Lines 211-215 with the escalation test written "r < n" (a plausible slip).
computeRadixStrictEscalation(n) ==
    IF Log10Class(n) = "neginf"
    THEN [err |-> "OverflowError", val |-> 0, p |-> 0, escalated |-> FALSE]
    ELSE IF Log10Class(n) = "nan"
    THEN [err |-> "ValueError", val |-> 0, p |-> 0, escalated |-> FALSE]
    ELSE LET p == RoundLog10(n)
             r == Pow10(p)
         IN  [err |-> "none",
              val |-> IF r < n THEN Pow10(p + 1) ELSE r,
              p |-> p, escalated |-> (r < n)]

\* Lines 211-215 with the logarithm taken of max(n, 1): no failure for a
\* non-positive bound (a plausible slip).
computeRadixClamped(n) ==
    LET m == IF n < 1 THEN 1 ELSE n
        p == RoundLog10(m)
        r == Pow10(p)
    IN  [err |-> "none",
         val |-> IF r <= m THEN Pow10(p + 1) ELSE r,
         p |-> p, escalated |-> (r <= m)]

RECURSIVE CeilLog10From(_, _)
\* The least p' >= p with 10^p' >= n: ceil(log10(n)) for n > 0.
CeilLog10From(n, p) == IF Pow10(p) >= n THEN p ELSE CeilLog10From(n, p + 1)

\* Lines 211-215 with math.ceil written for round (a plausible slip).
computeRadixCeilLog(n) ==
    IF Log10Class(n) = "neginf"
    THEN [err |-> "OverflowError", val |-> 0, p |-> 0, escalated |-> FALSE]
    ELSE IF Log10Class(n) = "nan"
    THEN [err |-> "ValueError", val |-> 0, p |-> 0, escalated |-> FALSE]
    ELSE LET p == CeilLog10From(n, 0)
             r == Pow10(p)
         IN  [err |-> "none",
              val |-> IF r <= n THEN Pow10(p + 1) ELSE r,
              p |-> p, escalated |-> (r <= n)]

\* The radix computation of save_data_iteration:
\*     p = round(np.log10(n)); r = 10**p
\*     if r <= n: r = 10 ** (p + 1)
\* round() of -inf raises OverflowError and round() of nan raises
\* ValueError; then no r exists (val is a placeholder, never read).
computeRadix(n) ==
    IF Log10Class(n) = "neginf"
    THEN [err |-> "OverflowError", val |-> 0, p |-> 0, escalated |-> FALSE]
    ELSE IF Log10Class(n) = "nan"
    THEN [err |-> "ValueError", val |-> 0, p |-> 0, escalated |-> FALSE]
    ELSE LET p == RoundLog10(n)
             r == Pow10(p)
         IN  [err |-> "none",
              val |-> IF r <= n THEN Pow10(p + 1) ELSE r,
              p |-> p, escalated |-> (r <= n)]

\* The two factors of the product swapped onto the wrong counter.
encodeSwapped(timeStepIndex, iterationIndex, radix) ==
    [err |-> "none", val |-> timeStepIndex + radix * iterationIndex]

\* The iteration index counted from one instead of zero.
encodeOneBased(timeStepIndex, iterationIndex, radix) ==
    [err |-> "none", val |-> iterationIndex + 1 + radix * timeStepIndex]

\* An encoder that refuses an iteration index that reached the radix.
encodeChecked(timeStepIndex, iterationIndex, radix) ==
    IF iterationIndex >= radix
    THEN [err |-> "ValueError", val |-> 0]
    ELSE [err |-> "none", val |-> iterationIndex + radix * timeStepIndex]

\* The time_step argument of write_vtu:
\*     num_iteration + r * time_index
\* No comparison of num_iteration with r is made and nothing is raised.
encode(timeStepIndex, iterationIndex, radix) ==
    [err |-> "none", val |-> iterationIndex + radix * timeStepIndex]

\* 10 ^ ceil(log10(m)) for m >= 1: the least power of ten >= m.
RECURSIVE CeilPow10From(_, _)
CeilPow10From(m, e) == IF Pow10(e) >= m THEN Pow10(e) ELSE CeilPow10From(m, e + 1)

\* The ceiling formula 10 ^ ceil(log10(maxIterations + 1)) that the design
\* notes compare the radix computation with.
ceilRadix(n) == CeilPow10From(n + 1, 0)

\* (t1, i1) before (t2, i2) in lexicographic order.
LexLess(t1, i1, t2, i2) == t1 < t2 \/ (t1 = t2 /\ i1 < i2)

(* ------------------------------- state --------------------------------- *)

VARIABLES
    \* the driver and the exporter
    max_iterations,   \* <<params["max_iterations"]>>, or Unset
    time_index,       \* time_manager.time_index
    num_iteration,    \* nonlinear_solver_statistics.num_iteration
    pos,              \* position in after_nonlinear_iteration (0: outside)
    solution_vector,  \* the latest solution (numbered by iteration computed)
    iterate,          \* the solution the iterate subdictionary holds
    vtu,              \* iteration_exporter: the vtu files written
    pvd,              \* iteration_exporter: the time steps the pvd file lists
    calls,            \* history: <<time_index, num_iteration, r>> per export
    error,            \* the exception that ended the run, or "none"
    \* calls of the two computations on their own
    fpc,              \* "start", "radix", "ceil", "encoded"
    arg_n,            \* maxIterations
    ret_radix,        \* what computeRadix returned or raised
    ret_ceil,         \* what the ceiling formula gives
    radix,            \* the radix handed to encode
    radix_from,       \* "computed" or "given"
    args,             \* <<t1, i1, t2, i2>>
    ret_e1,           \* encode(t1, i1, radix)
    ret_e2            \* encode(t2, i2, radix)

driver_vars == <<max_iterations, time_index, num_iteration, pos,
                 solution_vector, iterate, vtu, pvd, calls, error>>
fn_vars == <<fpc, arg_n, ret_radix, ret_ceil, radix, radix_from, args,
             ret_e1, ret_e2>>
vars == <<driver_vars, fn_vars>>

NoResult == [err |-> "none", val |-> 0]
NoRadix == [err |-> "none", val |-> 0, p |-> 0, escalated |-> FALSE]

\* The driver before the run, with max_iterations taken from `configs`.
DriverInit(configs) ==
    /\ max_iterations \in configs
    /\ time_index = 0
    /\ num_iteration = 0
    /\ pos = 0
    /\ solution_vector = 0
    /\ iterate = 0
    /\ vtu = << >>
    /\ pvd = << >>
    /\ calls = << >>
    /\ error = "none"

\* No call of the computations made yet, maxIterations taken from `ns`.
FnInit(ns) ==
    /\ fpc = "start"
    /\ arg_n \in ns
    /\ ret_radix = NoRadix
    /\ ret_ceil = 0
    /\ radix = 0
    /\ radix_from = "none"
    /\ args = <<0, 0, 0, 0>>
    /\ ret_e1 = NoResult
    /\ ret_e2 = NoResult

(* --------------------- the radix computation alone --------------------- *)

\* computeRadix(arg_n) is called; a radix returned is the one handed to
\* encode, and when the call raises no radix exists.
CallComputeRadix ==
    /\ fpc = "start"
    /\ ret_radix' = computeRadix(arg_n)
    /\ IF ret_radix'.err = "none"
       THEN radix' = ret_radix'.val /\ radix_from' = "computed"
       ELSE UNCHANGED <<radix, radix_from>>
    /\ fpc' = "radix"
    /\ UNCHANGED <<arg_n, ret_ceil, args, ret_e1, ret_e2>>
    /\ UNCHANGED driver_vars

\* The ceiling formula is evaluated for the same positive bound.
CallCeilRadix ==
    /\ fpc = "radix"
    /\ radix_from = "computed"
    /\ ret_ceil' = ceilRadix(arg_n)
    /\ fpc' = "ceil"
    /\ UNCHANGED <<arg_n, ret_radix, radix, radix_from, args, ret_e1, ret_e2>>
    /\ UNCHANGED driver_vars

InitRadix == DriverInit({Unset}) /\ FnInit((0 - MinNeg) .. MaxN)
NextRadix == CallComputeRadix \/ CallCeilRadix
SpecRadix == InitRadix /\ [][NextRadix]_vars

(* ------------------------- the encoding alone -------------------------- *)

\* A radix is given to encode directly instead of being computed.
ChooseRadix ==
    /\ fpc = "start"
    /\ \E r \in 1 .. MaxRadix : radix' = r
    /\ radix_from' = "given"
    /\ fpc' = "radix"
    /\ UNCHANGED <<arg_n, ret_radix, ret_ceil, args, ret_e1, ret_e2>>
    /\ UNCHANGED driver_vars

\* encode is called on two pairs (t1, i1), (t2, i2) with the same radix.
CallEncode ==
    /\ fpc = "radix"
    /\ radix_from # "none"
    /\ \E t1 \in 0 .. MaxT, i1 \in 0 .. MaxI, t2 \in 0 .. MaxT, i2 \in 0 .. MaxI :
          /\ args' = <<t1, i1, t2, i2>>
          /\ ret_e1' = encode(t1, i1, radix)
          /\ ret_e2' = encode(t2, i2, radix)
    /\ fpc' = "encoded"
    /\ UNCHANGED <<arg_n, ret_radix, ret_ceil, radix, radix_from>>
    /\ UNCHANGED driver_vars

InitEncode == DriverInit({Unset}) /\ FnInit(1 .. MaxIter)
NextEncode == CallComputeRadix \/ ChooseRadix \/ CallEncode
SpecEncode == InitEncode /\ [][NextEncode]_vars

(* ------------------- the solver loop and the callback ------------------ *)

\* self.params.get("max_iterations", 1): a wrong default.
MaxIterationsParamDefaultOne ==
    IF max_iterations = Unset THEN 1 ELSE max_iterations[1]

\* self.params.get("max_iterations", 10)
MaxIterationsParam ==
    IF max_iterations = Unset THEN DefaultMaxIterations ELSE max_iterations[1]

\* after_nonlinear_iteration with write_pvd placed before save_data_iteration.
AfterNonlinearIterationPvdFirst == <<"super", "write_pvd", "save_data_iteration">>

\* The statements of after_nonlinear_iteration, in order:
\*     super().after_nonlinear_iteration(solution_vector)
\*     self.save_data_iteration()
\*     self.iteration_exporter.write_pvd()
AfterNonlinearIteration == <<"super", "save_data_iteration", "write_pvd">>

\* pos after the statement at pos: the next statement, or past the last one.
Returned == Len(AfterNonlinearIteration) + 1

\* The time steps of the vtu files written, in the order written.
TimeSteps(files) == [k \in 1 .. Len(files) |-> files[k].time_step]

\* The solver computes one nonlinear iteration and calls the callback with
\* the new solution vector.
NonlinearIteration ==
    /\ pos = 0
    /\ error = "none"
    /\ solution_vector' = solution_vector + 1
    /\ pos' = 1
    /\ UNCHANGED <<max_iterations, time_index, num_iteration, iterate, vtu,
                   pvd, calls, error>>
    /\ UNCHANGED fn_vars

\* super().after_nonlinear_iteration(solution_vector): the solution is
\* distributed to the iterate subdictionary.
SuperAfterNonlinearIteration ==
    /\ pos \in 1 .. Len(AfterNonlinearIteration)
    /\ AfterNonlinearIteration[pos] = "super"
    /\ iterate' = solution_vector
    /\ pos' = pos + 1
    /\ UNCHANGED <<max_iterations, time_index, num_iteration, solution_vector,
                   vtu, pvd, calls, error>>
    /\ UNCHANGED fn_vars

\* save_data_iteration that also counts the iteration it exports.
SaveDataIterationCounting ==
    /\ pos \in 1 .. Len(AfterNonlinearIteration)
    /\ AfterNonlinearIteration[pos] = "save_data_iteration"
    /\ LET r == computeRadix(MaxIterationsParam)
           e == encode(time_index, num_iteration, r.val)
       IN  IF r.err # "none"
           THEN /\ error' = r.err
                /\ pos' = 0
                /\ UNCHANGED <<vtu, calls, num_iteration>>
           ELSE /\ vtu' = Append(vtu, [time_step |-> e.val, data |-> iterate])
                /\ calls' = Append(calls, <<time_index, num_iteration, r.val>>)
                /\ num_iteration' = num_iteration + 1
                /\ pos' = pos + 1
                /\ UNCHANGED error
    /\ UNCHANGED <<max_iterations, time_index, solution_vector, iterate, pvd>>
    /\ UNCHANGED fn_vars

\* self.save_data_iteration(): the radix is computed from the parameter and
\* one vtu file is written with the encoded index and the iterate's values.
\* An exception in the radix computation ends the callback and the run.
SaveDataIteration ==
    /\ pos \in 1 .. Len(AfterNonlinearIteration)
    /\ AfterNonlinearIteration[pos] = "save_data_iteration"
    /\ LET r == computeRadix(MaxIterationsParam)
           e == encode(time_index, num_iteration, r.val)
       IN  IF r.err # "none"
           THEN /\ error' = r.err
                /\ pos' = 0
                /\ UNCHANGED <<vtu, calls>>
           ELSE /\ vtu' = Append(vtu, [time_step |-> e.val, data |-> iterate])
                /\ calls' = Append(calls, <<time_index, num_iteration, r.val>>)
                /\ pos' = pos + 1
                /\ UNCHANGED error
    /\ UNCHANGED <<max_iterations, time_index, num_iteration, solution_vector,
                   iterate, pvd>>
    /\ UNCHANGED fn_vars

\* self.iteration_exporter.write_pvd(): the pvd file is written anew and
\* lists every time step exported so far.
WritePvd ==
    /\ pos \in 1 .. Len(AfterNonlinearIteration)
    /\ AfterNonlinearIteration[pos] = "write_pvd"
    /\ pvd' = TimeSteps(vtu)
    /\ pos' = pos + 1
    /\ UNCHANGED <<max_iterations, time_index, num_iteration, solution_vector,
                   iterate, vtu, calls, error>>
    /\ UNCHANGED fn_vars

\* The callback returned and the solver goes on to the next iteration of the
\* time step; it makes no iteration with an index above the bound.
NextIteration ==
    /\ pos = Returned
    /\ num_iteration < MaxIterationsParam
    /\ num_iteration' = num_iteration + 1
    /\ pos' = 0
    /\ UNCHANGED <<max_iterations, time_index, solution_vector, iterate, vtu,
                   pvd, calls, error>>
    /\ UNCHANGED fn_vars

\* The callback returned and the time step is complete: the time step index
\* goes up by one and the iteration index starts again at zero.
CompleteTimeStep ==
    /\ pos = Returned
    /\ time_index < MaxTimeIndex
    /\ time_index' = time_index + 1
    /\ num_iteration' = 0
    /\ pos' = 0
    /\ UNCHANGED <<max_iterations, solution_vector, iterate, vtu, pvd, calls,
                   error>>
    /\ UNCHANGED fn_vars

Init == DriverInit({Unset} \cup {<<n>> : n \in 0 .. MaxIter}) /\ FnInit({1})
Next ==
    \/ NonlinearIteration
    \/ SuperAfterNonlinearIteration
    \/ SaveDataIteration
    \/ WritePvd
    \/ NextIteration
    \/ CompleteTimeStep
Spec == Init /\ [][Next]_vars

(* ------------------------------ properties ----------------------------- *)

\* The arguments of the two encode calls.
T1 == args[1]
I1 == args[2]
T2 == args[3]
I2 == args[4]

\* computeRadix has been called on arg_n.
RadixCalled == fpc \in {"radix", "ceil"} /\ radix_from # "given"

\* C1: for every positive integer maxIterations, computeRadix returns the
\* smallest power of ten strictly greater than maxIterations: a power of
\* ten above the bound whose tenth is not above it.
C1_RadixSmallestPowerOfTen ==
    (RadixCalled /\ arg_n >= 1) =>
        /\ ret_radix.err = "none"
        /\ IsPowerOfTen(ret_radix.val)
        /\ ret_radix.val > arg_n
        /\ ret_radix.val \div 10 <= arg_n

\* C1 witness: 316 rounds down to p = 2, and the radix returned is 1000.
C1_Witness ==
    RadixCalled /\ arg_n = 316 /\ ret_radix.p = 2 /\ ret_radix.val = 1000

\* C2: in a run of the solver loop (iteration index up by one per iteration,
\* back to zero at each new time step, time step index up by one per
\* completed step, iteration index never reaching the radix) the encoded
\* indices handed to the exporter are strictly increasing in program order;
\* with maxIterations = 10, steps [0,0,0,1,1] and iterations [0,1,2,0,1]
\* give [0,1,2,100,101].
C2_EncodedStrictlyIncreasing ==
    /\ \A j, k \in 1 .. Len(vtu) : j < k => vtu[j].time_step < vtu[k].time_step
    /\ ( /\ MaxIterationsParam = 10
         /\ Len(calls) = 5
         /\ [k \in 1 .. 5 |-> <<calls[k][1], calls[k][2]>>]
                = << <<0, 0>>, <<0, 1>>, <<0, 2>>, <<1, 0>>, <<1, 1>> >> )
       => TimeSteps(vtu) = <<0, 1, 2, 100, 101>>

\* C2 witness: the run of the scenario, five snapshots over two time steps.
C2_Witness ==
    /\ MaxIterationsParam = 10
    /\ time_index = 1
    /\ num_iteration = 1
    /\ TimeSteps(vtu) = <<0, 1, 2, 100, 101>>

\* C3: for any radix and two pairs with both iteration indices below the
\* radix, encode(t1, i1) < encode(t2, i2) exactly when (t1, i1) is
\* lexicographically smaller than (t2, i2).
C3_EncodeOrderIsLexicographic ==
    (fpc = "encoded" /\ I1 < radix /\ I2 < radix) =>
        /\ ret_e1.err = "none"
        /\ ret_e2.err = "none"
        /\ (ret_e1.val < ret_e2.val) <=> LexLess(T1, I1, T2, I2)

\* C3 witness: an earlier time step with the larger iteration index.
C3_Witness ==
    /\ fpc = "encoded"
    /\ radix_from = "given"
    /\ T1 < T2
    /\ I2 < I1
    /\ I1 < radix
    /\ ret_e1.val < ret_e2.val

\* C4: with radix = computeRadix(maxIterations), the encoded indices of two
\* different time steps differ for all iteration indices from 0 up to and
\* including maxIterations.
C4_NoCollisionAcrossTimeSteps ==
    ( /\ fpc = "encoded"
      /\ radix_from = "computed"
      /\ T1 # T2
      /\ I1 <= arg_n
      /\ I2 <= arg_n )
    => ret_e1.val # ret_e2.val

\* C4 witness: the bound itself as iteration index, against the first
\* iteration of the next time step.
C4_Witness ==
    /\ fpc = "encoded"
    /\ radix_from = "computed"
    /\ arg_n = 10
    /\ I1 = arg_n
    /\ T2 = T1 + 1
    /\ I2 = 0
    /\ ret_e1.val < ret_e2.val

\* C5: round trip: with the iteration index below the radix, the encoded
\* index divided by the radix is the time step index and its remainder is
\* the iteration index.
C5_RoundTrip ==
    (fpc = "encoded") =>
        /\ I1 < radix => (ret_e1.val \div radix = T1 /\ ret_e1.val % radix = I1)
        /\ I2 < radix => (ret_e2.val \div radix = T2 /\ ret_e2.val % radix = I2)

\* C5 witness: the largest iteration index below the radix, in a time step
\* other than the first.
C5_Witness ==
    /\ fpc = "encoded"
    /\ radix > 1
    /\ I1 = radix - 1
    /\ T1 = 2
    /\ ret_e1.val \div radix = 2

\* C6: computeRadix(1) = 10, computeRadix(4) = 10, computeRadix(9) = 10,
\* computeRadix(10) = 100 and computeRadix(11) = 100.
C6_RadixConcreteCases ==
    RadixCalled =>
        /\ arg_n \in {1, 4, 9} => (ret_radix.err = "none" /\ ret_radix.val = 10)
        /\ arg_n \in {10, 11} => (ret_radix.err = "none" /\ ret_radix.val = 100)

\* C6 witness: the call with the bound 10 has returned 100.
C6_Witness == RadixCalled /\ arg_n = 10 /\ ret_radix.val = 100

\* C7, as amended: computeRadix with maxIterations zero or negative fails and
\* hands on no radix; the error is the one round() raises on the logarithm,
\* OverflowError for zero and ValueError for a negative bound.
C7_NonPositiveRaisesConversionError ==
    (fpc # "start" /\ arg_n <= 0) =>
        /\ ret_radix.err = IF arg_n = 0 THEN "OverflowError" ELSE "ValueError"
        /\ radix_from = "none"
        /\ radix = 0

\* C7 witness: the call with a negative bound has raised.
C7_Witness == fpc = "radix" /\ arg_n < 0 /\ ret_radix.err = "ValueError"

\* C7, as stated: computeRadix with maxIterations zero or negative fails with
\* an InvalidConfiguration error.
C7_Original ==
    (fpc # "start" /\ arg_n <= 0) => ret_radix.err = "InvalidConfiguration"

\* C8: in after_nonlinear_iteration the parent callback runs first (each
\* snapshot holds the solution of its own iteration), then exactly one vtu
\* snapshot is written, then the pvd file is written; whenever no callback
\* is under way the pvd file lists every vtu snapshot written so far.
C8_CallbackOrderAndPvdCoverage ==
    /\ \A k \in 1 .. Len(vtu) : vtu[k].data = k
    /\ (pos \in {0, Returned} /\ error = "none") => Len(vtu) = solution_vector
    /\ pos \in {0, Returned} => pvd = TimeSteps(vtu)
    /\ Len(pvd) <= Len(vtu)

\* C8 witness: a callback of the second time step has returned, with three
\* snapshots written and listed.
C8_Witness ==
    /\ pos = Returned
    /\ time_index = 1
    /\ Len(vtu) = 3
    /\ pvd = TimeSteps(vtu)
    /\ vtu[3].data = 3

\* C9: encode does not enforce iterationIndex < radix: for an iteration
\* index at or above the radix it raises nothing and returns
\* timeStepIndex * radix + iterationIndex, and encode(t, radix, radix) is
\* then not smaller than encode(t + 1, 0, radix).
C9_EncodeDoesNotEnforceBound ==
    (fpc = "encoded" /\ I1 >= radix) =>
        /\ ret_e1.err = "none"
        /\ ret_e1.val = T1 * radix + I1
        /\ (I1 = radix /\ T2 = T1 + 1 /\ I2 = 0) => ~(ret_e1.val < ret_e2.val)

\* C9 witness: the iteration index equal to the radix collides with the
\* first iteration of the next time step.
C9_Witness ==
    /\ fpc = "encoded"
    /\ I1 = radix
    /\ T2 = T1 + 1
    /\ I2 = 0
    /\ ret_e1.err = "none"
    /\ ret_e1.val = ret_e2.val

\* C10, as amended: for every positive integer maxIterations the round-based
\* computeRadix and the ceiling formula 10^ceil(log10(maxIterations + 1))
\* give the same radix.
C10_RoundAgreesWithCeiling ==
    (fpc = "ceil") => (ret_radix.err = "none" /\ ret_radix.val = ret_ceil)

\* C10 witness: both formulas evaluated at the boundary value 10.
C10_Witness == fpc = "ceil" /\ arg_n = 10 /\ ret_ceil = 100 /\ ret_radix.val = 100

\* C10, as stated: there are positive integers maxIterations for which the
\* two formulas yield different radices; read once both formulas have been
\* evaluated at the largest bound tried, over the bounds up to it.
C10_Original ==
    (fpc = "ceil" /\ arg_n = MaxN) =>
        \E n \in 1 .. arg_n : computeRadix(n).val # ceilRadix(n)

\* C11, as amended: for maxIterations just above a power-of-ten boundary
\* (11, 101, 1001) the initial candidate r = 10^round(log10(maxIterations))
\* is the power of ten just below and does not exceed maxIterations, so
\* computeRadix takes the escalation step; for 11 the candidate is 10 and
\* the radix returned is 100. The escalation is taken exactly when the
\* candidate does not exceed maxIterations.
C11_JustAboveBoundaryEscalates ==
    (RadixCalled /\ arg_n >= 1) =>
        /\ ret_radix.escalated <=> (Pow10(ret_radix.p) <= arg_n)
        /\ arg_n \in {11, 101, 1001} =>
              /\ Pow10(ret_radix.p) = arg_n - 1
              /\ ret_radix.escalated
              /\ ret_radix.val = 10 * (arg_n - 1)

\* C11 witness: the call with the bound 11 took the escalation step from
\* the candidate 10 to 100.
C11_Witness ==
    /\ RadixCalled
    /\ arg_n = 11
    /\ ret_radix.p = 1
    /\ ret_radix.escalated
    /\ ret_radix.val = 100

\* C11, as stated: for maxIterations = 11 the initial candidate already
\* exceeds maxIterations and is returned without the escalation step.
C11_Original ==
    (RadixCalled /\ arg_n = 11) =>
        /\ Pow10(ret_radix.p) > arg_n
        /\ ~ret_radix.escalated
        /\ ret_radix.val = Pow10(ret_radix.p)

\* C12: the radix is fixed for a run: every export call of a run uses the
\* same radix, the smallest power of ten above the configured
\* max_iterations, or 100 (from the default bound 10) when max_iterations
\* is not configured.
C12_RadixFixedForRun ==
    /\ \A j, k \in 1 .. Len(calls) : calls[j][3] = calls[k][3]
    /\ \A k \in 1 .. Len(calls) :
          IF max_iterations = Unset
          THEN calls[k][3] = 100
          ELSE /\ IsPowerOfTen(calls[k][3])
               /\ calls[k][3] > max_iterations[1]
               /\ calls[k][3] \div 10 <= max_iterations[1]
    /\ \A k \in 1 .. Len(calls) :
          vtu[k].time_step = calls[k][2] + calls[1][3] * calls[k][1]

\* C12 witness: a run without max_iterations configured has exported in two
\* time steps, each time with the radix 100.
C12_Witness ==
    /\ max_iterations = Unset
    /\ Len(calls) = 4
    /\ calls[1][1] = 0
    /\ calls[4][1] = 1
    /\ \A k \in 1 .. 4 : calls[k][3] = 100

\* The step taken is the statement self.save_data_iteration().
AtSaveDataIteration ==
    /\ pos \in 1 .. Len(AfterNonlinearIteration)
    /\ AfterNonlinearIteration[pos] = "save_data_iteration"

\* C13: save_data_iteration only reads the time step index, the iteration
\* index and the max-iterations configuration and leaves all three
\* unchanged; the encoded index is computed from the counters of the call
\* itself and only labels the snapshot written.
C13_SaveDataIterationFrame ==
    [][AtSaveDataIteration =>
          /\ time_index' = time_index
          /\ num_iteration' = num_iteration
          /\ max_iterations' = max_iterations
          /\ Len(vtu') > Len(vtu) =>
                /\ Len(vtu') = Len(vtu) + 1
                /\ vtu'[Len(vtu')].time_step
                      = num_iteration + calls'[Len(calls')][3] * time_index]_vars

\* C13 witness: the second export of a time step has been made and the
\* counters are those of before the call.
C13_Witness ==
    /\ pos \in 2 .. Len(AfterNonlinearIteration)
    /\ AfterNonlinearIteration[pos - 1] = "save_data_iteration"
    /\ Len(vtu) = solution_vector
    /\ num_iteration = 1
    /\ time_index = 1
    /\ vtu[Len(vtu)].time_step = 1 + calls[Len(calls)][3]

====
